---- MODULE Spec2Model ----
(***************************************************************************)
(* Model of the SLDC (ECMA-321) decompressor of decompress.go: the bit     *)
(* reader Input, the circular History and the Decompress loop.             *)
(*                                                                         *)
(* Two specifications share the variables:                                 *)
(*   Spec       one call of Decompress(data), one action per kind of loop  *)
(*              iteration;                                                 *)
(*   SpecInput  a caller of the Input API: any sequence of Get, Peek,      *)
(*              IsCtrl, Ctrl, Align and Avail calls on one Input.          *)
(*                                                                         *)
(* A uint32 is kept as two 16-bit limbs [hi, lo] so that values up to      *)
(* 2^32 - 1 and the wrap of a left shift are computed exactly.             *)
(* A Go run-time panic (index out of range, the explicit panic of          *)
(* History.Get) is an outcome of its own: the field panic of a result and  *)
(* the value "panic" of pc.                                                *)
(***************************************************************************)
EXTENDS Integers, Sequences, FiniteSets, TLC

VARIABLES
    data,     \* Input.data: the buffer, a sequence of bytes
    ofs,      \* Input.ofs: index of the current byte (0-based)
    bits,     \* Input.bits: bits of data[ofs] not yet consumed
    scheme,   \* Decompress: the active scheme
    hdata,    \* History.data: slot -> byte, for the slots written so far
    hpos,     \* History.pos
    result,   \* Decompress: the output accumulated so far
    pc,       \* "loop" | "done" | "panic" (Decompress), "api" (SpecInput)
    ret,      \* Decompress: the returned slice (<<>> is nil)
    err,      \* Decompress: the returned error
    full,     \* the untruncated buffer data is a prefix of
    toks,     \* the symbols the buffer was made of
    last      \* record of the last iteration (Spec) or call (SpecInput)

vars == <<data, ofs, bits, scheme, hdata, hpos, result, pc, ret, err, full, toks, last>>

-----------------------------------------------------------------------------
(* Program constants *)

Scheme1 == 1
Scheme2 == 2

CtrlFlush == 0
CtrlScheme1 == 1
CtrlScheme2 == 2
CtrlFileMark == 3
CtrlEOR == 4
CtrlReset1 == 5
CtrlReset2 == 6
CtrlEndMarker == 15

HistorySize == 1024
CtrlMarker == 511
MaxMatchCount == 271

ErrNil == "nil"
ErrTruncatedInput == "Truncated input"
ErrEOF == "EOF"
ErrInvalidControl == "Invalid control symbol"
ErrInvalidMatchCount == "Invalid match count"
ErrScheme2 == "Scheme 2 rules not implemented yet"

-----------------------------------------------------------------------------
(* uint32 arithmetic on two 16-bit limbs *)

Limb == 65536

U32(n) == [hi |-> 0, lo |-> n]

\* the value of a uint32 known to be below 2^31
U32Int(v) == v.hi * Limb + v.lo

RECURSIVE BitOr(_, _)
BitOr(a, b) ==
    IF a = 0 THEN b
    ELSE IF b = 0 THEN a
    ELSE 2 * BitOr(a \div 2, b \div 2) + (IF a % 2 = 1 \/ b % 2 = 1 THEN 1 ELSE 0)

\* v << k on uint32, 0 <= k <= 8: bits shifted past bit 31 are lost
Shl(v, k) ==
    LET lo2 == v.lo * 2^k
        hi2 == v.hi * 2^k + lo2 \div Limb
    IN  [hi |-> hi2 % Limb, lo |-> lo2 % Limb]

\* v | b for a value b below 2^16
Or(v, b) == [hi |-> v.hi, lo |-> BitOr(v.lo, b)]

\* v & (0xff >> (8 - k)), 0 <= k <= 8: the low k bits of v
AndLow(v, k) == [hi |-> 0, lo |-> v.lo % 2^k]

-----------------------------------------------------------------------------
(* Input *)

\* the result of a call on an Input: value, error, cursor after the call
Res(v, e, o, b) == [val |-> v, err |-> e, ofs |-> o, bits |-> b, panic |-> FALSE]

\* in.data[i] with i >= len(in.data): index out of range
Panic(o, b) == [val |-> U32(0), err |-> ErrNil, ofs |-> o, bits |-> b, panic |-> TRUE]

Avail(d, o, b) == (Len(d) - o - 1) * 8 + b

\* GetBytes without "val <<= 8"
RECURSIVE GetBytesNoShift(_, _, _, _)
GetBytesNoShift(d, val, o, n) ==
    IF n >= 8
    THEN IF o >= Len(d)
         THEN [val |-> val, err |-> ErrTruncatedInput, ofs |-> o, n |-> n]
         ELSE GetBytesNoShift(d, Or(val, d[o + 1]), o + 1, n - 8)
    ELSE [val |-> val, err |-> ErrNil, ofs |-> o, n |-> n]

\* the loop "for bits >= 8" of Get; n is the local bits
RECURSIVE GetBytes(_, _, _, _)
GetBytes(d, val, o, n) ==
    IF n >= 8
    THEN IF o >= Len(d)
         THEN [val |-> val, err |-> ErrTruncatedInput, ofs |-> o, n |-> n]
         ELSE GetBytes(d, Or(Shl(val, 8), d[o + 1]), o + 1, n - 8)
    ELSE [val |-> val, err |-> ErrNil, ofs |-> o, n |-> n]

\* GetTail taking the low bits of the byte instead of the high ones
GetTailLowBits(d, val, o, n) ==
    IF n > 0
    THEN IF o >= Len(d)
         THEN Res(val, ErrTruncatedInput, o, 8)
         ELSE Res(Or(Shl(val, n), d[o + 1] % 2^n), ErrNil, o, 8 - n)
    ELSE Res(val, ErrNil, o, 8)

\* the tail "if bits > 0" of Get
GetTail(d, val, o, n) ==
    IF n > 0
    THEN IF o >= Len(d)
         THEN Res(val, ErrTruncatedInput, o, 8)
         ELSE LET nb == 8 - n
                  b == (d[o + 1] \div 2^nb) % 2^n
              IN  Res(Or(Shl(val, n), b), ErrNil, o, nb)
    ELSE Res(val, ErrNil, o, 8)

Get(d, o, b, n) ==
    IF b > n
    THEN IF o >= Len(d) THEN Panic(o, b)
         ELSE LET left == b - n
              IN  Res(AndLow(U32(d[o + 1] \div 2^left), n), ErrNil, o, left)
    ELSE IF o >= Len(d) THEN Panic(o, b)
         ELSE LET val == AndLow(U32(d[o + 1]), b)
                  g == GetBytes(d, val, o + 1, n - b)
              IN  IF g.err # ErrNil
                  THEN Res(g.val, g.err, g.ofs, 8)
                  ELSE GetTail(d, g.val, g.ofs, g.n)

\* Peek without the restore of the cursor
PeekNoRestore(d, o, b, n) == Get(d, o, b, n)

Peek(d, o, b, n) ==
    LET g == Get(d, o, b, n)
    IN  IF g.panic THEN g ELSE Res(g.val, g.err, o, b)

\* IsCtrl testing 5 bits against 0x1f
IsCtrlShortMarker(d, o, b) ==
    LET p == Peek(d, o, b, 5)
    IN  [val |-> (~p.panic /\ p.err = ErrNil /\ p.val = U32(31)), panic |-> p.panic]

\* [val: BOOLEAN, panic]
IsCtrl(d, o, b) ==
    LET p == Peek(d, o, b, 9)
    IN  [val |-> (~p.panic /\ p.err = ErrNil /\ p.val = U32(CtrlMarker)), panic |-> p.panic]

\* val is the control word as an integer
CtrlRes(c, g) == [val |-> c, err |-> g.err, ofs |-> g.ofs, bits |-> g.bits, panic |-> g.panic]

Ctrl(d, o, b) ==
    LET g == Get(d, o, b, 9)
    IN  IF g.panic \/ g.err # ErrNil \/ g.val # U32(CtrlMarker)
        THEN CtrlRes(CtrlEOR, g)
        ELSE LET h == Get(d, g.ofs, g.bits, 4)
             IN  CtrlRes(U32Int(h.val), h)

\* AlignLoop without "in.ofs < len(in.data)"
RECURSIVE AlignLoopUnbounded(_, _)
AlignLoopUnbounded(d, o) ==
    IF o % 4 # 0 THEN AlignLoopUnbounded(d, o + 1) ELSE o

RECURSIVE AlignLoop(_, _)
AlignLoop(d, o) ==
    IF o % 4 # 0 /\ o < Len(d) THEN AlignLoop(d, o + 1) ELSE o

Align(d, o, b) ==
    LET o2 == AlignLoop(d, o)
    IN  IF o2 % 4 # 0
        THEN Res(U32(0), ErrTruncatedInput, o2, b)
        ELSE Res(U32(0), ErrNil, o2, b)

-----------------------------------------------------------------------------
(* History *)

\* History.data is make([]byte, 1024): every slot is 0 until it is written.
\* The array is kept as the function from the slots written so far to
\* their bytes; Slot reads a slot of the array.
NewHistory == <<>>

Slot(hd, i) == IF i \in DOMAIN hd THEN hd[i] ELSE 0

\* Add without the wrap of pos
AddNoWrap(hd, hp, b) == [data |-> (hp :> b) @@ hd, pos |-> hp + 1]

\* [data, pos] after h.Add(b)
Add(hd, hp, b) ==
    [data |-> (hp :> b) @@ hd,
     pos  |-> IF hp + 1 >= HistorySize THEN 0 ELSE hp + 1]

\* [b, ofs, panic] of h.Get(o)
HistoryGet(hd, o) ==
    IF o < 0 \/ o >= HistorySize
    THEN [b |-> 0, ofs |-> o, panic |-> TRUE]
    ELSE [b |-> Slot(hd, o), ofs |-> (IF o + 1 >= HistorySize THEN 0 ELSE o + 1),
          panic |-> FALSE]

\* h.pos after h.Reset()
Reset(hp) == 0

-----------------------------------------------------------------------------
(* Decompress: the state of one call is the record                         *)
(* [ofs, bits, scheme, hdata, hpos, result, pc, ret, err, last]            *)

\* last: kind of the last iteration, the control word input.Ctrl() returned
\* with a nil error (else -1), the match count and the displacement of a copy
\* pointer (-1 until it is read), the number of iterations started so far
NoLast == [kind |-> "none", code |-> -1, mc |-> 0, disp |-> -1, iter |-> 0]

NewState ==
    [ofs |-> 0, bits |-> 8, scheme |-> Scheme1, hdata |-> NewHistory, hpos |-> 0,
     result |-> <<>>, pc |-> "loop", ret |-> <<>>, err |-> ErrNil, last |-> NoLast]

At(st, g) == [st EXCEPT !.ofs = g.ofs, !.bits = g.bits]

Return(st, r, e) == [st EXCEPT !.pc = "done", !.ret = r, !.err = e]

Crash(st) == [st EXCEPT !.pc = "panic"]

Mark(st, kind, code, mc, disp) ==
    [st EXCEPT !.last = [kind |-> kind, code |-> code, mc |-> mc, disp |-> disp,
                         iter |-> st.last.iter + 1]]

\* case CtrlFlush / case CtrlEOR: input.Align()
AlignWith(st, isEOR, a) ==
    IF a.err # ErrNil THEN Return(At(st, a), <<>>, a.err)
    ELSE IF isEOR THEN Return(At(st, a), st.result, ErrNil)
    ELSE At(st, a)

AlignThen(d, st, isEOR) == AlignWith(st, isEOR, Align(d, st.ofs, st.bits))

\* Switch where an end marker never returns
SwitchEndMarkerNoOp(d, st, ctrl) ==
    CASE ctrl = CtrlFlush     -> AlignThen(d, st, FALSE)
      [] ctrl = CtrlScheme1   -> [st EXCEPT !.scheme = Scheme1]
      [] ctrl = CtrlScheme2   -> [st EXCEPT !.scheme = Scheme2]
      [] ctrl = CtrlEOR       -> AlignThen(d, st, TRUE)
      [] ctrl = CtrlReset1    -> [st EXCEPT !.scheme = Scheme1, !.hpos = Reset(st.hpos)]
      [] ctrl = CtrlReset2    -> [st EXCEPT !.scheme = Scheme2, !.hpos = Reset(st.hpos)]
      [] ctrl = CtrlEndMarker -> st
      [] OTHER                -> Return(st, <<>>, ErrInvalidControl)

\* Switch without the default case: an unknown control word is skipped
SwitchNoDefault(d, st, ctrl) ==
    CASE ctrl = CtrlFlush     -> AlignThen(d, st, FALSE)
      [] ctrl = CtrlScheme1   -> [st EXCEPT !.scheme = Scheme1]
      [] ctrl = CtrlScheme2   -> [st EXCEPT !.scheme = Scheme2]
      [] ctrl = CtrlEOR       -> AlignThen(d, st, TRUE)
      [] ctrl = CtrlReset1    -> [st EXCEPT !.scheme = Scheme1, !.hpos = Reset(st.hpos)]
      [] ctrl = CtrlReset2    -> [st EXCEPT !.scheme = Scheme2, !.hpos = Reset(st.hpos)]
      [] ctrl = CtrlEndMarker -> IF Len(st.result) = 0 THEN Return(st, <<>>, ErrEOF) ELSE st
      [] OTHER                -> st

\* Switch where Reset1 and Reset2 do not call history.Reset()
SwitchNoReset(d, st, ctrl) ==
    CASE ctrl = CtrlFlush     -> AlignThen(d, st, FALSE)
      [] ctrl = CtrlScheme1   -> [st EXCEPT !.scheme = Scheme1]
      [] ctrl = CtrlScheme2   -> [st EXCEPT !.scheme = Scheme2]
      [] ctrl = CtrlEOR       -> AlignThen(d, st, TRUE)
      [] ctrl = CtrlReset1    -> [st EXCEPT !.scheme = Scheme1]
      [] ctrl = CtrlReset2    -> [st EXCEPT !.scheme = Scheme2]
      [] ctrl = CtrlEndMarker -> IF Len(st.result) = 0 THEN Return(st, <<>>, ErrEOF) ELSE st
      [] OTHER                -> Return(st, <<>>, ErrInvalidControl)

\* Switch where an end marker always returns io.EOF
SwitchEndMarkerEOF(d, st, ctrl) ==
    CASE ctrl = CtrlFlush     -> AlignThen(d, st, FALSE)
      [] ctrl = CtrlScheme1   -> [st EXCEPT !.scheme = Scheme1]
      [] ctrl = CtrlScheme2   -> [st EXCEPT !.scheme = Scheme2]
      [] ctrl = CtrlEOR       -> AlignThen(d, st, TRUE)
      [] ctrl = CtrlReset1    -> [st EXCEPT !.scheme = Scheme1, !.hpos = Reset(st.hpos)]
      [] ctrl = CtrlReset2    -> [st EXCEPT !.scheme = Scheme2, !.hpos = Reset(st.hpos)]
      [] ctrl = CtrlEndMarker -> Return(st, <<>>, ErrEOF)
      [] OTHER                -> Return(st, <<>>, ErrInvalidControl)

\* the switch on the control word
Switch(d, st, ctrl) ==
    CASE ctrl = CtrlFlush     -> AlignThen(d, st, FALSE)
      [] ctrl = CtrlScheme1   -> [st EXCEPT !.scheme = Scheme1]
      [] ctrl = CtrlScheme2   -> [st EXCEPT !.scheme = Scheme2]
      [] ctrl = CtrlEOR       -> AlignThen(d, st, TRUE)
      [] ctrl = CtrlReset1    -> [st EXCEPT !.scheme = Scheme1, !.hpos = Reset(st.hpos)]
      [] ctrl = CtrlReset2    -> [st EXCEPT !.scheme = Scheme2, !.hpos = Reset(st.hpos)]
      [] ctrl = CtrlEndMarker -> IF Len(st.result) = 0 THEN Return(st, <<>>, ErrEOF) ELSE st
      [] OTHER                -> Return(st, <<>>, ErrInvalidControl)

\* the branch "if input.IsCtrl()", from "if err != nil": c is the result of
\* input.Ctrl()
ControlWith(d, st, c) ==
    IF c.panic THEN Crash(Mark(At(st, c), "ctrl", -1, 0, -1))
    ELSE IF c.err # ErrNil THEN Return(Mark(At(st, c), "ctrl", -1, 0, -1), <<>>, c.err)
    ELSE Switch(d, Mark(At(st, c), "ctrl", c.val, 0, -1), c.val)

\* the branch "if input.IsCtrl()"
ControlStep(d, st) == ControlWith(d, st, Ctrl(d, st.ofs, st.bits))

\* the loop "for ones = 0; ones < 4; ones++": [ones, err, ofs, bits, panic]
RECURSIVE ReadOnes(_, _, _, _)
ReadOnes(d, o, b, ones) ==
    IF ones < 4
    THEN LET g == Get(d, o, b, 1)
         IN  IF g.panic \/ g.err # ErrNil \/ g.val = U32(0)
             THEN [ones |-> ones, err |-> g.err, ofs |-> g.ofs, bits |-> g.bits,
                   panic |-> g.panic]
             ELSE ReadOnes(d, g.ofs, g.bits, ones + 1)
    ELSE [ones |-> ones, err |-> ErrNil, ofs |-> o, bits |-> b, panic |-> FALSE]

\* the switch on ones
Base(ones) ==
    CASE ones = 0 -> 2 [] ones = 1 -> 4 [] ones = 2 -> 8 [] ones = 3 -> 16 [] ones = 4 -> 32

ExtraBits(ones) ==
    CASE ones = 0 -> 1 [] ones = 1 -> 2 [] ones = 2 -> 3 [] ones = 3 -> 4 [] ones = 4 -> 8

\* matchCount >= 271
BadMatchCountOffByOne(mc) == mc >= MaxMatchCount

\* matchCount > 271
BadMatchCount(mc) == mc > MaxMatchCount

\* CopyByte without history.Add(b)
CopyByteNoAdd(c) ==
    LET g == HistoryGet(c.hdata, c.disp)
    IN  IF c.panic THEN c
        ELSE IF g.panic THEN [c EXCEPT !.panic = TRUE]
        ELSE [c EXCEPT !.result = Append(c.result, g.b), !.disp = g.ofs]

\* the body of the loop "for matchCount > 0" on [hdata, hpos, result, disp, panic]
CopyByte(c) ==
    LET g == HistoryGet(c.hdata, c.disp)
        h == Add(c.hdata, c.hpos, g.b)
    IN  IF c.panic THEN c
        ELSE IF g.panic THEN [c EXCEPT !.panic = TRUE]
        ELSE [hdata |-> h.data, hpos |-> h.pos, result |-> Append(c.result, g.b),
              disp |-> g.ofs, panic |-> FALSE]

\* the loop "for matchCount > 0": mc times the body, split in halves to keep
\* the evaluation shallow
RECURSIVE CopyLoop(_, _)
CopyLoop(c, mc) ==
    IF mc <= 0 THEN c
    ELSE IF mc = 1 THEN CopyByte(c)
    ELSE LET h == CopyLoop(c, mc \div 2)
         IN  IF h.panic THEN h ELSE CopyLoop(h, mc - (mc \div 2))

\* Literal 1 Data Symbols, from "if err != nil": g is the result of input.Get(8)
LiteralWith(st, g) ==
    IF g.panic THEN Crash(Mark(At(st, g), "lit", -1, 0, -1))
    ELSE IF g.err # ErrNil THEN Return(Mark(At(st, g), "lit", -1, 0, -1), <<>>, g.err)
    ELSE LET h == Add(st.hdata, st.hpos, U32Int(g.val) % 256)
         IN  [Mark(At(st, g), "lit", -1, 0, -1)
                 EXCEPT !.hdata = h.data, !.hpos = h.pos,
                        !.result = Append(st.result, U32Int(g.val) % 256)]

\* Literal 1 Data Symbols
LiteralSymbol(d, st) == LiteralWith(st, Get(d, st.ofs, st.bits, 8))

\* Copy Pointer Data Symbols, from "val, err := input.Get(10)": y is the
\* result of that Get
CopyBytes(st, matchCount, y) ==
    IF y.panic THEN Crash(Mark(At(st, y), "copy", -1, matchCount, -1))
    ELSE IF y.err # ErrNil
    THEN Return(Mark(At(st, y), "copy", -1, matchCount, -1), <<>>, y.err)
    ELSE LET c == CopyLoop([hdata |-> st.hdata, hpos |-> st.hpos, result |-> st.result,
                            disp |-> U32Int(y.val), panic |-> FALSE], matchCount)
         IN  IF c.panic
             THEN Crash(Mark(At(st, y), "copy", -1, matchCount, U32Int(y.val)))
             ELSE [Mark(At(st, y), "copy", -1, matchCount, U32Int(y.val))
                      EXCEPT !.hdata = c.hdata, !.hpos = c.hpos, !.result = c.result]

\* from "matchCount := base + int(val)"
CopyCount(d, st, matchCount) ==
    IF BadMatchCount(matchCount)
    THEN Return(Mark(st, "copy", -1, matchCount, -1), <<>>, ErrInvalidMatchCount)
    ELSE CopyBytes(st, matchCount, Get(d, st.ofs, st.bits, 10))

\* from "val, err = input.Get(bits)": x is the result of that Get
CopyExtra(d, st, ones, x) ==
    IF x.panic THEN Crash(Mark(At(st, x), "copy", -1, 0, -1))
    ELSE IF x.err # ErrNil THEN Return(Mark(At(st, x), "copy", -1, 0, -1), <<>>, x.err)
    ELSE CopyCount(d, At(st, x), Base(ones) + U32Int(x.val))

\* from the end of the loop on ones: r is the result of that loop
CopyOnes(d, st, r) ==
    IF r.panic THEN Crash(Mark(At(st, r), "copy", -1, 0, -1))
    ELSE IF r.err # ErrNil THEN Return(Mark(At(st, r), "copy", -1, 0, -1), <<>>, r.err)
    ELSE CopyExtra(d, st, r.ones, Get(d, r.ofs, r.bits, ExtraBits(r.ones)))

\* Copy Pointer Data Symbols
CopyPointer(d, st) == CopyOnes(d, st, ReadOnes(d, st.ofs, st.bits, 0))

\* the branch "else if scheme == Scheme1", from "if err != nil": g is the
\* result of input.Get(1)
SymbolWith(d, st, g) ==
    IF g.panic THEN Crash(Mark(At(st, g), "sym", -1, 0, -1))
    ELSE IF g.err # ErrNil THEN Return(Mark(At(st, g), "sym", -1, 0, -1), <<>>, g.err)
    ELSE IF g.val = U32(0) THEN LiteralSymbol(d, At(st, g))
    ELSE CopyPointer(d, At(st, g))

\* the branch "else if scheme == Scheme1"
SymbolStep(d, st) == SymbolWith(d, st, Get(d, st.ofs, st.bits, 1))

\* the final else branch
Scheme2Step(st) == Return(Mark(st, "scheme2", -1, 0, -1), <<>>, ErrScheme2)

\* one iteration of the loop of Decompress, ic the result of input.IsCtrl()
IterationWith(d, st, ic) ==
    IF ic.panic THEN Crash(Mark(st, "isctrl", -1, 0, -1))
    ELSE IF ic.val THEN ControlStep(d, st)
    ELSE IF st.scheme = Scheme1 THEN SymbolStep(d, st)
    ELSE Scheme2Step(st)

\* one iteration of the loop of Decompress
Iteration(d, st) == IterationWith(d, st, IsCtrl(d, st.ofs, st.bits))

\* the whole call, from state st
RECURSIVE Run(_, _)
Run(d, st) == IF st.pc # "loop" THEN st ELSE Run(d, Iteration(d, st))

Decompress(d) == Run(d, NewState)

-----------------------------------------------------------------------------
(* Input buffers: the bit format of the symbols, packed MSB-first *)

MaxToks == 3    \* symbols of a free sequence
MaxLits == 7    \* literals of a record of literals
MaxPre == 2     \* literals before the copy pointer of a copy record
MaxCut == 4     \* bytes cut from the end of a buffer
MaxData == 4    \* bytes of a buffer of SpecInput

\* the n bits of v, most significant first
BitsOf(v, n) == [i \in 1..n |-> (v \div 2^(n - i)) % 2]

Lit(b) == [k |-> "lit", x |-> b, y |-> 0, z |-> 0]
Copy(ones, extra, disp) == [k |-> "copy", x |-> ones, y |-> extra, z |-> disp]
Ctl(c) == [k |-> "ctrl", x |-> c, y |-> 0, z |-> 0]

\* ones -> <<base, extra bits>>, indexed from 1
CopyTable == << <<2, 1>>, <<4, 2>>, <<8, 3>>, <<16, 4>>, <<32, 8>> >>

MatchCountOf(t) == CopyTable[t.x + 1][1] + t.y

Zeros(n) == [i \in 1..n |-> 0]

\* zero bits up to the next multiple of 32
Pad32(bs) == bs \o Zeros((32 - (Len(bs) % 32)) % 32)

EncodeTok(t) ==
    CASE t.k = "lit"  -> <<0>> \o BitsOf(t.x, 8)
      [] t.k = "copy" -> <<1>> \o [i \in 1..t.x |-> 1] \o (IF t.x < 4 THEN <<0>> ELSE <<>>)
                              \o BitsOf(t.y, CopyTable[t.x + 1][2]) \o BitsOf(t.z, 10)
      [] t.k = "ctrl" -> BitsOf(511, 9) \o BitsOf(t.x, 4)

\* the bits of a sequence of symbols; Flush and EOR are followed by padding
RECURSIVE Encode(_, _, _)
Encode(ts, i, acc) ==
    IF i > Len(ts) THEN acc
    ELSE LET a == acc \o EncodeTok(ts[i])
         IN  Encode(ts, i + 1,
                    IF ts[i].k = "ctrl" /\ ts[i].x \in {0, 4} THEN Pad32(a) ELSE a)

ByteAt(bs, j) ==
    bs[8*j + 1] * 128 + bs[8*j + 2] * 64 + bs[8*j + 3] * 32 + bs[8*j + 4] * 16
    + bs[8*j + 5] * 8 + bs[8*j + 6] * 4 + bs[8*j + 7] * 2 + bs[8*j + 8]

Pack(bs) == LET p == Pad32(bs) IN [j \in 1..(Len(p) \div 8) |-> ByteAt(p, j - 1)]

Buffer(ts) == Pack(Encode(ts, 1, <<>>))

SeqsUpTo(S, n) == UNION {[1..m -> S] : m \in 0..n}

LitBytes == {88, 89}

\* the symbols of a free sequence: literal, copy pointer, and the control
\* words after which decoding goes on
PreToks == {Lit(88), Copy(0, 0, 0)} \cup {Ctl(c) : c \in {0, 1, 2, 5, 6, 15}}

\* free sequences of symbols, and every control word after a short one
FreeSeqs ==
    {s \o t : s \in SeqsUpTo(PreToks, MaxToks - 1),
              t \in {<<>>} \cup {<<x>> : x \in PreToks \cup {Ctl(4)}}}
    \cup {s \o <<Ctl(c)>> : s \in SeqsUpTo(PreToks, 1), c \in 0..15}

\* records of literals: literals, EOR, padding
LitRecords == {[i \in 1..Len(s) |-> Lit(s[i])] \o <<Ctl(4)>> : s \in SeqsUpTo(LitBytes, MaxLits)}

\* every unary prefix with every value of its extra bits
CopyToks ==
    {t \in {Copy(o, e, d) : o \in 0..4, e \in 0..255, d \in {0, 1, 1023}} :
        t.y < 2^(CopyTable[t.x + 1][2])}

\* the literals 88, 89, ... and one copy pointer
CopyRecords ==
    {[i \in 1..k |-> Lit(87 + i)] \o <<c>> : k \in 0..MaxPre, c \in CopyToks}

\* the literals 88, 89, a Reset1 or Reset2, and one more symbol
ResetRecords ==
    {<<Lit(88), Lit(89), Ctl(c), t>> :
        c \in {CtrlReset1, CtrlReset2},
        t \in {Lit(90), Copy(0, 0, 0), Copy(0, 0, 1), Copy(0, 1, 1), Ctl(CtrlEOR)}}

\* a literal and copy pointers of 271 bytes each, enough to fill the history
\* more than once
WrapRecords ==
    {<<Lit(88)>> \o [i \in 1..n |-> Copy(4, 239, d)] \o <<Lit(89), Copy(0, 0, e)>> :
        n \in 3..4, d \in {0, 1023}, e \in {0, 1023}}

Inputs ==
    {<<ts, c>> : ts \in FreeSeqs \cup LitRecords, c \in 0..MaxCut}
    \cup {<<ts, 0>> : ts \in CopyRecords \cup ResetRecords \cup WrapRecords}

\* the bytes of a buffer of SpecInput: all ones, and 10100110
ByteSet == {255, 166}

-----------------------------------------------------------------------------
(* Spec: one call of Decompress *)

Cur ==
    [ofs |-> ofs, bits |-> bits, scheme |-> scheme, hdata |-> hdata, hpos |-> hpos,
     result |-> result, pc |-> pc, ret |-> ret, err |-> err, last |-> last]

Becomes(st) ==
    /\ ofs' = st.ofs /\ bits' = st.bits /\ scheme' = st.scheme
    /\ hdata' = st.hdata /\ hpos' = st.hpos /\ result' = st.result
    /\ pc' = st.pc /\ ret' = st.ret /\ err' = st.err /\ last' = st.last
    /\ UNCHANGED <<data, full, toks>>

Init ==
    \E in \in Inputs :
        LET buf == Buffer(in[1])
        IN  /\ in[2] <= Len(buf)
            /\ toks = in[1]
            /\ full = buf
            /\ data = SubSeq(buf, 1, Len(buf) - in[2])
            /\ ofs = 0 /\ bits = 8
            /\ scheme = Scheme1
            /\ hdata = NewHistory /\ hpos = 0
            /\ result = <<>> /\ pc = "loop" /\ ret = <<>> /\ err = ErrNil
            /\ last = NoLast

NextIsCtrl == IsCtrl(data, ofs, bits)
FirstBit == Get(data, ofs, bits, 1)

\* the branch the next iteration takes
Branch ==
    IF NextIsCtrl.panic THEN "panic"
    ELSE IF NextIsCtrl.val THEN "ctrl"
    ELSE IF scheme # Scheme1 THEN "scheme2"
    ELSE IF ~FirstBit.panic /\ FirstBit.err = ErrNil /\ FirstBit.val # U32(0) THEN "copy"
    ELSE "lit"

\* IsCtrl indexes past the end of the buffer
IsCtrlPanic ==
    /\ pc = "loop" /\ Branch = "panic"
    /\ Becomes(Iteration(data, Cur))

ControlWord ==
    /\ pc = "loop" /\ Branch = "ctrl"
    /\ Becomes(Iteration(data, Cur))

Literal ==
    /\ pc = "loop" /\ Branch = "lit"
    /\ Becomes(Iteration(data, Cur))

CopyPtr ==
    /\ pc = "loop" /\ Branch = "copy"
    /\ Becomes(Iteration(data, Cur))

Scheme2Rules ==
    /\ pc = "loop" /\ Branch = "scheme2"
    /\ Becomes(Iteration(data, Cur))

Next == IsCtrlPanic \/ ControlWord \/ Literal \/ CopyPtr \/ Scheme2Rules

Spec == Init /\ [][Next]_vars

-----------------------------------------------------------------------------
(* SpecInput: a caller of the Input API *)

MaxGet == 32

\* the sizes Peek is called with
PeekSizes == {1, 4, 8, 9, 13, 16, 32}

\* last: the call, its argument, what it returned, the cursor before it, and
\* whether every call before it (clean0) and up to it (clean) was a Get that
\* returned no error
NewCall == [kind |-> "NewInput", n |-> 0, val |-> U32(0), err |-> ErrNil,
            ofs0 |-> 0, bits0 |-> 8, clean0 |-> TRUE, clean |-> TRUE]

Called(kind, n, r, clean) ==
    /\ last' = [kind |-> kind, n |-> n, val |-> r.val, err |-> r.err,
                ofs0 |-> ofs, bits0 |-> bits, clean0 |-> last.clean, clean |-> clean]
    /\ pc' = IF r.panic THEN "panic" ELSE "api"
    /\ ofs' = r.ofs
    /\ bits' = r.bits
    /\ UNCHANGED <<data, scheme, hdata, hpos, result, ret, err, full, toks>>

InitInput ==
    /\ data \in SeqsUpTo(ByteSet, MaxData)
    /\ full = data
    /\ toks = <<>>
    /\ ofs = 0 /\ bits = 8
    /\ scheme = Scheme1
    /\ hdata = NewHistory /\ hpos = 0
    /\ result = <<>> /\ pc = "api" /\ ret = <<>> /\ err = ErrNil
    /\ last = NewCall

CallGetWith(n, r) == Called("Get", n, r, last.clean /\ ~r.panic /\ r.err = ErrNil)

CallGet == pc = "api" /\ \E n \in 1..MaxGet : CallGetWith(n, Get(data, ofs, bits, n))

CallPeek == pc = "api" /\ \E n \in PeekSizes : Called("Peek", n, Peek(data, ofs, bits, n), FALSE)

IsCtrlRes(ic) ==
    [val |-> U32(IF ic.val THEN 1 ELSE 0), err |-> ErrNil, ofs |-> ofs, bits |-> bits,
     panic |-> ic.panic]

CallIsCtrl == pc = "api" /\ Called("IsCtrl", 0, IsCtrlRes(IsCtrl(data, ofs, bits)), FALSE)

CtrlCallRes(c) == [c EXCEPT !.val = U32(c.val)]

CallCtrl == pc = "api" /\ Called("Ctrl", 0, CtrlCallRes(Ctrl(data, ofs, bits)), FALSE)

CallAlign == pc = "api" /\ Called("Align", 0, Align(data, ofs, bits), FALSE)

\* Avail: the int it returns is kept in last.val.lo
CallAvail ==
    pc = "api" /\ Called("Avail", 0, Res(U32(Avail(data, ofs, bits)), ErrNil, ofs, bits), FALSE)

NextInput == CallGet \/ CallPeek \/ CallIsCtrl \/ CallCtrl \/ CallAlign \/ CallAvail

SpecInput == InitInput /\ [][NextInput]_vars

-----------------------------------------------------------------------------
(* Properties *)

\* position of the cursor, in bits from the start of the buffer
Pos == 8 * ofs + (8 - bits)

\* Decompress decodes the untruncated buffer
FullDecodes == LET r == Decompress(full) IN r.pc = "done" /\ r.err = ErrNil

\* the call has ended on a proper prefix of a buffer that decodes
PrefixCase == pc # "loop" /\ Len(data) < Len(full) /\ FullDecodes

\* C1: Decompress on a proper byte-prefix of a buffer it decodes returns
\* ErrTruncatedInput with a nil result, and does not panic.
C1_PrefixTruncated ==
    PrefixCase => (pc = "done" /\ err = ErrTruncatedInput /\ ret = <<>>)

\* the number of literals the symbols start with
LeadLits(ts) ==
    CHOOSE k \in 0..Len(ts) :
        /\ \A i \in 1..k : ts[i].k = "lit"
        /\ k = Len(ts) \/ ts[k + 1].k # "lit"

IsLitRecord(ts) == Len(ts) >= 1 /\ LeadLits(ts) = Len(ts) - 1 /\ ts[Len(ts)] = Ctl(4)

LitsOf(ts, k) == [i \in 1..k |-> ts[i].x]

\* C2: the buffer of n literals, the EOR control word and the padding to the
\* next 4-byte boundary decodes to the n bytes, in order, with a nil error.
C2_LiteralRecord ==
    (IsLitRecord(toks) /\ data = full /\ pc # "loop")
        => (pc = "done" /\ err = ErrNil /\ ret = LitsOf(toks, Len(toks) - 1))

\* seven literals, so that the EOR word starts at bit 63, the last bit of a byte
C2_Witness ==
    /\ IsLitRecord(toks) /\ Len(toks) = 8 /\ data = full
    /\ pc = "done" /\ err = ErrNil /\ Len(ret) = 7 /\ ret[1] # ret[2]

\* the literals are followed by a copy pointer, the iteration that read it has
\* ended, and it took the copy branch to its end
AfterCopy(k) ==
    /\ k < Len(toks) /\ toks[k + 1].k = "copy"
    /\ pc = "loop" /\ last.kind = "copy" /\ last.iter = k + 1

\* the bytes a copy of m bytes from displacement d appends after the k
\* literals b, d < k
RunOf(b, k, d, m) == [i \in 1..m |-> b[d + ((i - 1) % (k - d)) + 1]]

\* C3: after k literals b written from slot 0, a copy pointer with match
\* count m and displacement d < k appends to the output and to the history
\* the m bytes b[d + (i mod (k - d))], i = 0..m-1.
C3_CopyOverlap ==
    LET k == LeadLits(toks)
    IN  (AfterCopy(k) /\ toks[k + 1].z < k) =>
            LET m == MatchCountOf(toks[k + 1])
                d == toks[k + 1].z
                out == LitsOf(toks, k) \o RunOf(LitsOf(toks, k), k, d, m)
            IN  /\ last.mc = m /\ last.disp = d
                /\ result = out
                /\ hpos = (k + m) % HistorySize
                /\ \A i \in 1..(k + m) : Slot(hdata, i - 1) = out[i]

\* literals X, Y and a copy of 3 bytes from displacement 0: the third byte
\* copied is the first byte the copy wrote
C3_Witness ==
    /\ toks = <<Lit(88), Lit(89), Copy(0, 1, 0)>>
    /\ AfterCopy(2)
    /\ result = <<88, 89, 88, 89, 88>>

\* the buffer is k literals and one whole copy pointer, and the iteration
\* that read the copy pointer has ended
CopyRead(k) ==
    /\ Len(toks) = k + 1 /\ toks[k + 1].k = "copy" /\ data = full
    /\ last.iter = k + 1

CopyAccepted(k, m) ==
    /\ pc = "loop" /\ last.kind = "copy" /\ last.mc = m
    /\ Len(result) = k + m

\* C4 as stated: match counts 2..271 are accepted and the copy pointer that
\* encodes 272 returns the invalid-match-count error.
C4_MatchCountBoundary ==
    LET k == LeadLits(toks)
    IN  CopyRead(k) =>
            LET m == MatchCountOf(toks[k + 1])
            IN  /\ m <= 271 => CopyAccepted(k, m)
                /\ m = 272 => (pc = "done" /\ err = ErrInvalidMatchCount)

\* C4 amended: match counts 2..271 are accepted; the bits that would encode
\* 272 and more (four ones, extra >= 240) start with nine ones and are read
\* as the control word whose code is the low 4 bits of extra (Flush for 272),
\* and the invalid-match-count error is not returned.
C4_MatchCountControl ==
    LET k == LeadLits(toks)
    IN  CopyRead(k) =>
            LET m == MatchCountOf(toks[k + 1])
            IN  /\ m <= 271 => CopyAccepted(k, m)
                /\ m >= 272 => /\ last.kind = "ctrl"
                               /\ last.code = toks[k + 1].y - 240
                               /\ err # ErrInvalidMatchCount

\* the bits of match count 272 were read as Flush
C4_Witness ==
    /\ toks = <<Lit(88), Copy(4, 240, 1)>> /\ CopyRead(1)
    /\ last.kind = "ctrl" /\ last.code = CtrlFlush

\* the smallest multiple of 32 that is >= p
Ceil32(p) == ((p + 31) \div 32) * 32

Pos0 == 8 * last.ofs0 + (8 - last.bits0)

\* C5: when Align returns nil the cursor is at the smallest multiple of 32
\* bits that is >= its position before the call.
C5_AlignBoundary ==
    (pc = "api" /\ last.kind = "Align" /\ last.err = ErrNil) => Pos = Ceil32(Pos0)

\* C6: an EndMarker control word consumed while the output is empty makes
\* Decompress return (nil, io.EOF).
C6_LeadingEndMarker ==
    (last.kind = "ctrl" /\ last.code = CtrlEndMarker /\ result = <<>>)
        => (pc = "done" /\ err = ErrEOF /\ ret = <<>>)

\* the buffer that holds only the 13 bits of the EndMarker
C6_Witness ==
    /\ data = <<255, 248>>
    /\ last.kind = "ctrl" /\ last.code = CtrlEndMarker
    /\ pc = "done" /\ err = ErrEOF

\* C7: a control word FileMark or 7..14 makes Decompress return the
\* invalid-control-symbol error and a nil result.
C7_InvalidControl ==
    (last.kind = "ctrl" /\ last.code \in {CtrlFileMark} \cup 7..14)
        => (pc = "done" /\ err = ErrInvalidControl /\ ret = <<>>)

\* a FileMark read under Scheme 2
C7_Witness ==
    /\ last.kind = "ctrl" /\ last.code = CtrlFileMark /\ scheme = Scheme2
    /\ pc = "done" /\ err = ErrInvalidControl

\* C8: under Scheme 2 an iteration appends nothing to the output or the
\* history, and the iteration whose next bits are not a control word returns
\* the Scheme-2-not-implemented error.
C8_Scheme2 ==
    [][(pc = "loop" /\ scheme = Scheme2) =>
          /\ result' = result /\ hdata' = hdata
          /\ Branch # "ctrl" => (pc' = "done" /\ err' = ErrScheme2)]_vars

\* C9: an iteration that does not return advances the cursor by at least 9
\* bits, the iterations are bounded by the bit length of the input, and the
\* call ends by returning.
C9_Terminates ==
    [][pc = "loop" =>
          /\ pc' \in {"loop", "done"}
          /\ pc' = "loop" => Pos' >= Pos + 9
          /\ 9 * (last'.iter - 1) <= 8 * Len(data)]_vars

\* the part of C9 that holds: progress and the bound on the iterations
C9_Progress ==
    [][pc = "loop" =>
          /\ pc' = "loop" => Pos' >= Pos + 9
          /\ 9 * (last'.iter - 1) <= 8 * Len(data)]_vars

BitAt(d, p) == (d[(p \div 8) + 1] \div 2^(7 - (p % 8))) % 2

\* the number whose binary digits are the n bits of d from bit p, n <= 16
RECURSIVE BitsInt(_, _, _)
BitsInt(d, p, n) == IF n = 0 THEN 0 ELSE 2 * BitsInt(d, p, n - 1) + BitAt(d, p + n - 1)

NextBits(d, p, n) ==
    IF n <= 16 THEN U32(BitsInt(d, p, n))
    ELSE [hi |-> BitsInt(d, p, n - 16), lo |-> BitsInt(d, p + n - 16, 16)]

\* C10: from a cursor reached by successful Get calls, with at least n bits
\* remaining, Get(n) returns nil error and the next n bits MSB-first, and
\* advances the cursor by n bits.
C10_GetValue ==
    (last.kind = "Get" /\ last.clean0 /\ 8 * Len(data) - Pos0 >= last.n)
        => /\ pc = "api" /\ last.err = ErrNil
           /\ last.val = NextBits(data, Pos0, last.n)
           /\ Pos = Pos0 + last.n
           /\ bits \in 1..8

\* a Get of 17 bits from the middle of a byte, over two byte boundaries
C10_Witness ==
    /\ last.kind = "Get" /\ last.n = 17 /\ last.bits0 = 3 /\ last.clean
    /\ data = <<255, 166, 166, 255>>
    /\ last.val = NextBits(data, Pos0, 17)

\* the bits of the buffer after the cursor the last call started from
Left0 == 8 * Len(data) - Pos0

\* C11: Get(n) and Peek(n) called with fewer than n bits remaining return
\* ErrTruncatedInput, from every cursor the calls of the API reach; they
\* return no value and do not panic.
C11_GetPeekTruncated ==
    (last.kind \in {"Get", "Peek"} /\ Left0 < last.n)
        => (pc = "api" /\ last.err = ErrTruncatedInput)

\* the cursor a Peek was called from, and what Get returns from it
PeekAsGet == Get(data, last.ofs0, last.bits0, last.n)

\* C12: Peek(n) returns the value and the error Get(n) returns from the same
\* cursor and leaves ofs and bits as they were, when it succeeds and when it
\* fails with ErrTruncatedInput; IsCtrl leaves the cursor as it was.
C12_PeekFrame ==
    /\ last.kind = "Peek" =>
          /\ ofs = last.ofs0 /\ bits = last.bits0
          /\ (pc = "panic") = PeekAsGet.panic
          /\ pc = "api" => (last.val = PeekAsGet.val /\ last.err = PeekAsGet.err)
          /\ Left0 >= last.n
                => (pc = "api" /\ last.err = ErrNil /\ last.val = NextBits(data, Pos0, last.n))
    /\ last.kind = "IsCtrl" => (ofs = last.ofs0 /\ bits = last.bits0)

\* a Peek of 13 bits from bit 5 of a two-byte buffer fails and the cursor
\* stays at bit 5, where Get(13) moves it to the end of the buffer
C12_Witness ==
    /\ last.kind = "Peek" /\ last.n = 13 /\ last.err = ErrTruncatedInput
    /\ Len(data) = 2 /\ ofs = 0 /\ bits = 3 /\ pc = "api"
    /\ PeekAsGet.ofs = 2

\* C13: Align returns ErrTruncatedInput when the cursor is not on a 32-bit
\* boundary and the buffer ends before the next one.
C13_AlignTruncated ==
    (last.kind = "Align" /\ Pos0 % 32 # 0 /\ 8 * Len(data) < Ceil32(Pos0))
        => (pc = "api" /\ last.err = ErrTruncatedInput)

\* the step is an iteration that read the control word c
ReadsCtrl(c) == pc = "loop" /\ last'.kind = "ctrl" /\ last'.code = c

\* the step is the first iteration after one that read Reset1 or Reset2
AfterReset == pc = "loop" /\ last.kind = "ctrl" /\ last.code \in {CtrlReset1, CtrlReset2}

\* C14: Reset1 and Reset2 set the scheme and set the history write position
\* to 0; the stored history bytes and the output are unchanged and the call
\* goes on. The literal that follows is written to slot 0 and no other slot
\* changes; the copy that follows a Reset1 appends first the byte that was
\* stored at its displacement before the reset.
C14_ResetFrame ==
    [][/\ ReadsCtrl(CtrlReset1) \/ ReadsCtrl(CtrlReset2) =>
            /\ scheme' = (IF last'.code = CtrlReset1 THEN Scheme1 ELSE Scheme2)
            /\ hpos' = 0
            /\ hdata' = hdata /\ result' = result
            /\ pc' = "loop" /\ Pos' = Pos + 13
       /\ (AfterReset /\ last'.kind = "lit" /\ pc' = "loop") =>
            /\ Len(result') = Len(result) + 1
            /\ Slot(hdata', 0) = result'[Len(result')] /\ hpos' = 1
            /\ \A i \in 1..(HistorySize - 1) : Slot(hdata', i) = Slot(hdata, i)
       /\ (AfterReset /\ last'.kind = "copy" /\ pc' = "loop") =>
            /\ Len(result') = Len(result) + last'.mc
            /\ result'[Len(result) + 1] = Slot(hdata, last'.disp)
            /\ Slot(hdata', 0) = Slot(hdata, last'.disp)
      ]_vars

\* literals 88, 89, Reset1, then a copy of 2 bytes from slot 1: it reads the
\* 89 stored before the reset, writes it to slot 0, and then reads slot 2,
\* which was never written
C14_Witness ==
    /\ toks = <<Lit(88), Lit(89), Ctl(CtrlReset1), Copy(0, 0, 1)>>
    /\ pc = "loop" /\ last.kind = "copy" /\ last.iter = 4
    /\ result = <<88, 89, 89, 0>>
    /\ hpos = 2 /\ Slot(hdata, 0) = 89 /\ Slot(hdata, 1) = 0

\* C15: an EndMarker control word read while the output is non-empty only
\* consumes its 13 bits: output, history, write position and scheme are
\* unchanged and the call does not return.
C15_EndMarkerNoOp ==
    [][(ReadsCtrl(CtrlEndMarker) /\ result # <<>>) =>
            /\ result' = result /\ hdata' = hdata /\ hpos' = hpos /\ scheme' = scheme
            /\ pc' = "loop" /\ ret' = <<>> /\ err' = ErrNil
            /\ Pos' = Pos + 13
      ]_vars

\* a literal, an EndMarker, and a literal decoded after it
C15_Witness ==
    /\ toks = <<Lit(88), Ctl(CtrlEndMarker), Lit(88)>> /\ data = full
    /\ pc = "loop" /\ last.kind = "lit" /\ last.iter = 3
    /\ result = <<88, 88>>

\* C16: after any sequence of Get, Peek, IsCtrl, Ctrl, Align and Avail calls,
\* failed ones included, 0 <= ofs <= len(data) and 1 <= bits <= 8, and the
\* last call did not move the cursor backwards.
C16_CursorInvariant ==
    /\ ofs \in 0..Len(data)
    /\ bits \in 1..8
    /\ Pos >= Pos0
    /\ last.kind \in {"Peek", "IsCtrl", "Avail"} => Pos = Pos0

\* a Get that failed with ErrTruncatedInput and left the cursor at the end
\* of the buffer, called after an Align that failed too
C16_Witness ==
    /\ last.kind = "Get" /\ last.err = ErrTruncatedInput /\ pc = "api"
    /\ ~last.clean0 /\ last.bits0 < 8
    /\ Pos > Pos0 /\ ofs = Len(data) /\ bits = 8

\* a literal, or a copy pointer with a match count in 2..271
ValidData(t) == t.k = "lit" \/ (t.k = "copy" /\ MatchCountOf(t) \in 2..MaxMatchCount)

\* the first 9 bits of the encoding of a symbol, as a number
First9(t) == BitsInt(Pack(EncodeTok(t)), 0, 9)

\* the cursor is at the start of symbol i: the buffer is whole, the i - 1
\* symbols before it are literals, and i - 1 iterations have run
AtSymbol(i) ==
    /\ pc = "loop" /\ data = full /\ scheme = Scheme1
    /\ i \in 1..Len(toks) /\ i - 1 <= LeadLits(toks)
    /\ last.iter = i - 1 /\ Pos = 9 * (i - 1)

\* symbol i has just been decoded, from its start
Decoded(i) ==
    /\ data = full
    /\ i \in 1..Len(toks) /\ i - 1 <= LeadLits(toks)
    /\ last.iter = i

\* C17: the first 9 bits of a literal or of a copy pointer with match count
\* 2..271 are not 0x1FF: at the start of such a symbol IsCtrl is false, at the
\* start of a control word it is true, and the symbol is decoded on the
\* branch of its kind, never as a control word.
C17_MarkerDistinct ==
    /\ \A i \in 1..Len(toks) :
          AtSymbol(i) =>
             /\ ValidData(toks[i]) =>
                   (First9(toks[i]) # CtrlMarker /\ ~NextIsCtrl.val /\ ~NextIsCtrl.panic)
             /\ toks[i].k = "ctrl" => (First9(toks[i]) = CtrlMarker /\ NextIsCtrl.val)
    /\ \A i \in 1..Len(toks) :
          (Decoded(i) /\ ValidData(toks[i])) => last.kind = toks[i].k

\* the copy pointer of 271 bytes, 1 1111 11101111 and a displacement of ten
\* ones, decoded as a copy pointer after one literal
C17_Witness ==
    /\ toks = <<Lit(88), Copy(4, 239, 1023)>> /\ Decoded(2)
    /\ First9(toks[2]) = 510
    /\ last.kind = "copy" /\ last.mc = 271 /\ last.disp = 1023 /\ pc = "loop"

\* C18: during a call of Decompress the history write position is in
\* 0..1023, only slots 0..1023 are written, the displacement of a copy
\* pointer is in 0..1023, and the call never ends in the panic of
\* History.Get (a copy pointer whose displacement was read never panics);
\* without a reset the write position is the number of bytes written modulo
\* 1024.
C18_HistoryBounds ==
    /\ hpos \in 0..(HistorySize - 1)
    /\ DOMAIN hdata \subseteq 0..(HistorySize - 1)
    /\ last.disp \in -1..(HistorySize - 1)
    /\ ~(pc = "panic" /\ last.kind = "copy" /\ last.disp # -1)
    /\ toks \in WrapRecords => hpos = Len(result) % HistorySize

\* 1 + 4 * 271 + 1 = 1086 bytes written: the write position has wrapped to
\* 62, and a copy from displacement 1023 wraps its read offset to 0
C18_Witness ==
    /\ Len(toks) = 7 /\ toks[7] = Copy(0, 0, 1023) /\ toks[2].z = 0
    /\ pc = "loop" /\ last.iter = 7 /\ last.kind = "copy" /\ last.disp = 1023
    /\ Len(result) = 1088 /\ hpos = 64
    /\ result[1087] = 88 /\ result[1088] = 88

\* C19: after any sequence of Get, Peek, Ctrl and Align calls that returned,
\* Avail() is not negative and is the number of bits of the buffer after the
\* cursor.
C19_AvailRemaining ==
    pc = "api" =>
        /\ Avail(data, ofs, bits) >= 0
        /\ Avail(data, ofs, bits) = 8 * Len(data) - Pos
        /\ last.kind = "Avail" => last.val.lo = 8 * Len(data) - Pos /\ last.val.lo >= 0

\* the 4 bits after the 9 bits a call of Ctrl started with
CodeBits0 == BitsInt(data, Pos0 + 9, 4)

\* C20: when Ctrl returns a nil error, the 9 bits it read were 0x1FF, the
\* control word it returns is the value of the next 4 bits, and the cursor
\* has advanced by 13 bits.
C20_CtrlMarker ==
    (last.kind = "Ctrl" /\ pc = "api" /\ last.err = ErrNil) =>
        /\ Left0 >= 13
        /\ BitsInt(data, Pos0, 9) = CtrlMarker
        /\ last.val = U32(CodeBits0)
        /\ Pos = Pos0 + 13

====
